---- MODULE Spec2Model ----
(***************************************************************************)
(* LoadablePluginPlaceholder (components/plugins/renderer): the gate that  *)
(* keeps a placeholder in a plugin container until every load blocker is   *)
(* cleared, and then swaps the placeholder for the real plugin.            *)
(*                                                                         *)
(* One instance is modelled.  Every handler of the class is one atomic     *)
(* action (the renderer is single threaded and no handler suspends); the   *)
(* handlers are written as operators from a record of the instance's       *)
(* state to the record after the call, so that a handler that calls        *)
(* another one (LoadCallback -> MarkPluginEssential -> LoadPlugin ->       *)
(* ReplacePlugin -> destroy -> PluginDestroyed) is the composition of the  *)
(* operators.  What the host does during a call (initialize succeeding or  *)
(* not, the container or the element disappearing, CreatePlugin returning  *)
(* null) is an input of the action, the record e.                          *)
(***************************************************************************)
EXTENDS Integers, Sequences, FiniteSets, TLC

\* ------------------------------------------------------------------ bounds
\* Calls of ReplacePlugin followed over the life of the instance.
MaxAttempts == 2
\* Evaluations of the size heuristic (the poster branch of
\* OnUnobscuredRectUpdate) followed over the life of the instance.
MaxEvals == 2
\* Unobscured rects 0..NumRects; 0 is the default gfx::Rect().
NumRects == 1

Rects == 0..NumRects
Identifiers == {"", "a", "b"}
Messages == {"", "m"}

\* content::RenderFrame::PeripheralContentStatus, as the code tells them apart.
CONTENT_STATUS_PERIPHERAL == "CONTENT_STATUS_PERIPHERAL"
CONTENT_STATUS_ESSENTIAL_SAME_ORIGIN == "CONTENT_STATUS_ESSENTIAL_SAME_ORIGIN"
CONTENT_STATUS_ESSENTIAL_CROSS_ORIGIN_BIG == "CONTENT_STATUS_ESSENTIAL_CROSS_ORIGIN_BIG"
PeripheralContentStatus ==
  { CONTENT_STATUS_PERIPHERAL, CONTENT_STATUS_ESSENTIAL_SAME_ORIGIN,
    CONTENT_STATUS_ESSENTIAL_CROSS_ORIGIN_BIG }

\* PluginInstanceThrottler::PowerSaverUnthrottleMethod, the values the file uses.
UNTHROTTLE_METHOD_DO_NOT_RECORD == "UNTHROTTLE_METHOD_DO_NOT_RECORD"
UNTHROTTLE_METHOD_BY_CLICK == "UNTHROTTLE_METHOD_BY_CLICK"
UNTHROTTLE_METHOD_BY_WHITELIST == "UNTHROTTLE_METHOD_BY_WHITELIST"
UNTHROTTLE_METHOD_BY_SIZE_CHANGE == "UNTHROTTLE_METHOD_BY_SIZE_CHANGE"
UNTHROTTLE_METHOD_NEVER == "UNTHROTTLE_METHOD_NEVER"

\* What the host does while ReplacePlugin runs.  An answer the code never
\* asks for in a run is left at its default, so that each run is listed once.
HostDefault ==
  [ createOk |-> TRUE,        \* CreatePlugin() returns a plugin, not null
    initOk |-> TRUE,          \* new_plugin->initialize(container) returns true
    contAfter |-> TRUE,       \* new_plugin->container() is non-null after a failed initialize
    elemAfter |-> TRUE,       \* element.pluginContainer() is non-null after initialize
    selfReplaced |-> FALSE ]  \* the new plugin replaced itself in the container
HostInputs ==
  { HostDefault,
    [HostDefault EXCEPT !.createOk = FALSE],
    [HostDefault EXCEPT !.initOk = FALSE],
    [HostDefault EXCEPT !.initOk = FALSE, !.contAfter = FALSE],
    [HostDefault EXCEPT !.elemAfter = FALSE],
    [HostDefault EXCEPT !.selfReplaced = TRUE] }

VARIABLES
  \* fields of LoadablePluginPlaceholder
  is_delayed_placeholder_,
  is_blocked_for_background_tab_,
  is_blocked_for_prerendering_,
  is_blocked_for_power_saver_poster_,
  power_saver_enabled_,
  premade_throttler_,        \* TRUE: a throttler is held; FALSE: nullptr
  allow_loading_,
  finished_loading_,
  heuristic_run_before_,
  identifier_,
  message_,
  unobscured_rect_,
  \* fields of the base class PluginPlaceholderBase
  plugin_,                   \* plugin() is non-null
  hidden_,
  \* the host
  container,                 \* plugin()->container() is non-null
  containerPlugin,           \* the plugin the host's container holds
  premadeHidden,             \* the premade plugin's hidden-for-placeholder flag
  premadeEssential,          \* the method the throttler was marked essential with
  premadeDestroyed,          \* destroy() calls on the premade plugin
  uiMessage,                 \* the text window.setMessage() last showed
  \* what has been observed of the run
  phase,                     \* "setup": the factory configures; "live": events
  crashed,                   \* a CHECK failed or a null container was dereferenced
  dcheck,                    \* the last handler hit a DCHECK or NOTREACHED
  metrics,                   \* RecordUnthrottleMethodMetric calls made by the gate
  whitelisted,               \* WhitelistContentOrigin calls, with their circumstances
  evals,                     \* evaluations of the size heuristic so far
  attempts,                  \* calls of ReplacePlugin so far
  created,                   \* calls of CreatePlugin so far
  installs,                  \* container->setPlugin(new_plugin) calls so far
  lastSwap,                  \* what the last call of ReplacePlugin met and did
  peripheralRegistered,      \* RegisterPeripheralPlugin holds the essential callback
  premadeSupplied,           \* SetPremadePlugin was called on this instance
  premadeHandedOff,          \* LoadPlugin passed the premade plugin to ReplacePlugin
  touchedAfterHandoff,       \* premade_throttler_ was dereferenced after that
  installedDestroyed         \* the gate destroyed the plugin the container holds

vars ==
  << is_delayed_placeholder_, is_blocked_for_background_tab_,
     is_blocked_for_prerendering_, is_blocked_for_power_saver_poster_,
     power_saver_enabled_, premade_throttler_, allow_loading_,
     finished_loading_, heuristic_run_before_, identifier_, message_,
     unobscured_rect_, plugin_, hidden_, container, containerPlugin,
     premadeHidden, premadeEssential, premadeDestroyed, uiMessage, phase,
     crashed, dcheck, metrics, whitelisted, evals, attempts, created,
     installs, lastSwap, peripheralRegistered, premadeSupplied,
     premadeHandedOff,
     touchedAfterHandoff, installedDestroyed >>

\* The state as one record, the form the handlers work on.
Cur ==
  [ is_delayed_placeholder_ |-> is_delayed_placeholder_,
    is_blocked_for_background_tab_ |-> is_blocked_for_background_tab_,
    is_blocked_for_prerendering_ |-> is_blocked_for_prerendering_,
    is_blocked_for_power_saver_poster_ |-> is_blocked_for_power_saver_poster_,
    power_saver_enabled_ |-> power_saver_enabled_,
    premade_throttler_ |-> premade_throttler_,
    allow_loading_ |-> allow_loading_,
    finished_loading_ |-> finished_loading_,
    heuristic_run_before_ |-> heuristic_run_before_,
    identifier_ |-> identifier_,
    message_ |-> message_,
    unobscured_rect_ |-> unobscured_rect_,
    plugin_ |-> plugin_,
    hidden_ |-> hidden_,
    container |-> container,
    containerPlugin |-> containerPlugin,
    premadeHidden |-> premadeHidden,
    premadeEssential |-> premadeEssential,
    premadeDestroyed |-> premadeDestroyed,
    uiMessage |-> uiMessage,
    phase |-> phase,
    crashed |-> crashed,
    dcheck |-> dcheck,
    metrics |-> metrics,
    whitelisted |-> whitelisted,
    evals |-> evals,
    attempts |-> attempts,
    created |-> created,
    installs |-> installs,
    lastSwap |-> lastSwap,
    peripheralRegistered |-> peripheralRegistered,
    premadeSupplied |-> premadeSupplied,
    premadeHandedOff |-> premadeHandedOff,
    touchedAfterHandoff |-> touchedAfterHandoff,
    installedDestroyed |-> installedDestroyed ]

\* The next state is the record t, within the bounds.
Commit(t) ==
  /\ t.attempts <= MaxAttempts
  /\ t.evals <= MaxEvals
  /\ is_delayed_placeholder_' = t.is_delayed_placeholder_
  /\ is_blocked_for_background_tab_' = t.is_blocked_for_background_tab_
  /\ is_blocked_for_prerendering_' = t.is_blocked_for_prerendering_
  /\ is_blocked_for_power_saver_poster_' = t.is_blocked_for_power_saver_poster_
  /\ power_saver_enabled_' = t.power_saver_enabled_
  /\ premade_throttler_' = t.premade_throttler_
  /\ allow_loading_' = t.allow_loading_
  /\ finished_loading_' = t.finished_loading_
  /\ heuristic_run_before_' = t.heuristic_run_before_
  /\ identifier_' = t.identifier_
  /\ message_' = t.message_
  /\ unobscured_rect_' = t.unobscured_rect_
  /\ plugin_' = t.plugin_
  /\ hidden_' = t.hidden_
  /\ container' = t.container
  /\ containerPlugin' = t.containerPlugin
  /\ premadeHidden' = t.premadeHidden
  /\ premadeEssential' = t.premadeEssential
  /\ premadeDestroyed' = t.premadeDestroyed
  /\ uiMessage' = t.uiMessage
  /\ phase' = t.phase
  /\ crashed' = t.crashed
  /\ dcheck' = t.dcheck
  /\ metrics' = t.metrics
  /\ whitelisted' = t.whitelisted
  /\ evals' = t.evals
  /\ attempts' = t.attempts
  /\ created' = t.created
  /\ installs' = t.installs
  /\ lastSwap' = t.lastSwap
  /\ peripheralRegistered' = t.peripheralRegistered
  /\ premadeSupplied' = t.premadeSupplied
  /\ premadeHandedOff' = t.premadeHandedOff
  /\ touchedAfterHandoff' = t.touchedAfterHandoff
  /\ installedDestroyed' = t.installedDestroyed

\* ---------------------------------------------------------------- helpers
\* lastSwap before any call of ReplacePlugin.
NoSwap ==
  [ target |-> "none",            \* "null", "premade" or "created"
    blocked |-> FALSE,            \* a blocker flag was set when the call was made
    contBefore |-> FALSE,         \* plugin()->container() was non-null
    installed |-> FALSE,          \* container->setPlugin(new_plugin) ran
    initialized |-> FALSE,        \* new_plugin->initialize(container) ran
    initFailed |-> FALSE,         \* ... and returned false
    contAfterFail |-> FALSE,      \* new_plugin->container() after the failure
    restored |-> FALSE,           \* container->setPlugin(plugin()) ran
    targetDestroyed |-> FALSE,    \* new_plugin->destroy() ran
    elemGone |-> FALSE,           \* element.pluginContainer() was null
    finished |-> FALSE,           \* RestoreTitleText, invalidate, reportGeometry ran
    replayedInto |-> "none",      \* the plugin ReplayReceivedData was given
    placeholderDestroyed |-> FALSE, \* plugin()->destroy() ran
    steps |-> << >> ]             \* the calls made on the host, in their order

\* The calls that end a swap that went through (lines 140 to 144).
FinishSteps ==
  << "RestoreTitleText", "invalidate", "reportGeometry", "ReplayReceivedData",
     "plugin()->destroy" >>

\* The blocker flags as the spec's set of blockers.
Blockers(s) ==
  (IF s.is_blocked_for_background_tab_ THEN {"BackgroundTab"} ELSE {})
  \cup (IF s.is_blocked_for_prerendering_ THEN {"Prerendering"} ELSE {})
  \cup (IF s.is_blocked_for_power_saver_poster_ THEN {"PowerSaverPoster"} ELSE {})

\* PluginInstanceThrottler::RecordUnthrottleMethodMetric(method).
RecordUnthrottleMethodMetric(s, method) ==
  [s EXCEPT !.metrics = Append(@, method)]

\* A dereference of premade_throttler_ (other than reading the pointer).
TouchPremade(s) ==
  [s EXCEPT !.touchedAfterHandoff = @ \/ s.premadeHandedOff]

\* destroy() on the premade plugin.
DestroyPremadePlugin(s) ==
  [s EXCEPT !.premadeDestroyed = @ + 1,
            !.installedDestroyed = @ \/ (s.containerPlugin = "premade")]

\* new_plugin->destroy() in ReplacePlugin.
DestroyNewPlugin(s, new_plugin) ==
  LET t == [s EXCEPT !.lastSwap.targetDestroyed = TRUE,
                     !.lastSwap.steps = Append(@, "new_plugin->destroy")]
  IN IF new_plugin = "premade" THEN DestroyPremadePlugin(t) ELSE t

\* ------------------------------------------------------------ the handlers
\* PluginPlaceholderBase::PluginDestroyed(): plugin_ = nullptr.
BasePluginDestroyed(s) ==
  [s EXCEPT !.plugin_ = FALSE]

\* LoadablePluginPlaceholder::PluginDestroyed().
PluginDestroyed(s) ==
  LET s1 ==
        IF s.power_saver_enabled_
        THEN LET s2 ==
                   IF s.premade_throttler_
                   THEN [DestroyPremadePlugin(TouchPremade(s))
                           EXCEPT !.premade_throttler_ = FALSE]
                   ELSE IF s.is_blocked_for_power_saver_poster_
                   THEN RecordUnthrottleMethodMetric(s, UNTHROTTLE_METHOD_NEVER)
                   ELSE s
             IN [s2 EXCEPT !.power_saver_enabled_ = FALSE]
        ELSE s
  IN BasePluginDestroyed(s1)

\* WebViewPlugin::destroy() on the placeholder's plugin: the delegate is told
\* (PluginDestroyed) and the plugin lets go of its container.
WebViewPluginDestroy(s) ==
  [PluginDestroyed(s) EXCEPT !.container = FALSE]

\* LoadablePluginPlaceholder::LoadingBlocked(): the value returned.
LoadingBlocked(s) ==
  \/ s.is_blocked_for_background_tab_
  \/ s.is_blocked_for_power_saver_poster_
  \/ s.is_blocked_for_prerendering_

\* LoadablePluginPlaceholder::LoadingBlocked(): its DCHECK(allow_loading_).
LoadingBlockedDcheck(s) ==
  [s EXCEPT !.dcheck = @ \/ ~s.allow_loading_]

\* ReplacePlugin leaving the failed target in the container: the branch that
\* restores the placeholder after a failed initialize is not taken.
ReplacePluginNoRestore(s, new_plugin, e) ==
  IF ~s.plugin_ THEN [s EXCEPT !.crashed = TRUE]
  ELSE
  LET s0 == [s EXCEPT !.attempts = @ + 1,
                      !.lastSwap = [NoSwap EXCEPT !.target = new_plugin,
                                                  !.blocked = LoadingBlocked(s),
                                                  !.contBefore = s.container]]
      s1 == [s0 EXCEPT !.containerPlugin = new_plugin,
                       !.installs = @ + 1,
                       !.lastSwap.installed = TRUE,
                       !.lastSwap.steps = Append(@, "setPlugin(new_plugin)")]
      plugin_needs_initialization ==
        ~s.premade_throttler_ \/ new_plugin # "premade"
      s2 == IF plugin_needs_initialization
            THEN [s1 EXCEPT !.lastSwap.initialized = TRUE,
                            !.lastSwap.steps = Append(@, "initialize")]
            ELSE s1
      current == IF plugin_needs_initialization /\ e.selfReplaced
                 THEN "other" ELSE new_plugin
  IN IF new_plugin = "null" THEN s0
     ELSE IF ~s.container THEN DestroyNewPlugin(s0, new_plugin)
     ELSE IF plugin_needs_initialization /\ ~e.initOk
     THEN [s2 EXCEPT !.lastSwap.initFailed = TRUE,
                     !.lastSwap.contAfterFail = e.contAfter]
     ELSE IF plugin_needs_initialization /\ ~e.elemAfter
     THEN WebViewPluginDestroy(
            [s2 EXCEPT !.containerPlugin = "none",
                       !.lastSwap.elemGone = TRUE,
                       !.lastSwap.placeholderDestroyed = TRUE,
                       !.lastSwap.steps = Append(@, "plugin()->destroy")])
     ELSE WebViewPluginDestroy(
            [s2 EXCEPT !.containerPlugin = current,
                       !.lastSwap.finished = TRUE,
                       !.lastSwap.replayedInto = current,
                       !.lastSwap.placeholderDestroyed = TRUE,
                       !.lastSwap.steps = @ \o FinishSteps])

\* ReplacePlugin replaying the buffered data into the plugin it was passed,
\* not into the one the container holds after the initialization.
ReplacePluginReplayOriginal(s, new_plugin, e) ==
  IF ~s.plugin_ THEN [s EXCEPT !.crashed = TRUE]
  ELSE
  LET s0 == [s EXCEPT !.attempts = @ + 1,
                      !.lastSwap = [NoSwap EXCEPT !.target = new_plugin,
                                                  !.blocked = LoadingBlocked(s),
                                                  !.contBefore = s.container]]
      s1 == [s0 EXCEPT !.containerPlugin = new_plugin,
                       !.installs = @ + 1,
                       !.lastSwap.installed = TRUE,
                       !.lastSwap.steps = Append(@, "setPlugin(new_plugin)")]
      plugin_needs_initialization ==
        ~s.premade_throttler_ \/ new_plugin # "premade"
      s2 == IF plugin_needs_initialization
            THEN [s1 EXCEPT !.lastSwap.initialized = TRUE,
                            !.lastSwap.steps = Append(@, "initialize")]
            ELSE s1
      current == IF plugin_needs_initialization /\ e.selfReplaced
                 THEN "other" ELSE new_plugin
  IN IF new_plugin = "null" THEN s0
     ELSE IF ~s.container THEN DestroyNewPlugin(s0, new_plugin)
     ELSE IF plugin_needs_initialization /\ ~e.initOk
     THEN LET s3 == [s2 EXCEPT !.lastSwap.initFailed = TRUE,
                               !.lastSwap.contAfterFail = e.contAfter]
          IN IF e.contAfter
             THEN DestroyNewPlugin(
                    [s3 EXCEPT !.containerPlugin = "placeholder",
                               !.lastSwap.restored = TRUE,
                               !.lastSwap.steps = Append(@, "setPlugin(plugin())")],
                    new_plugin)
             ELSE s3
     ELSE IF plugin_needs_initialization /\ ~e.elemAfter
     THEN WebViewPluginDestroy(
            [s2 EXCEPT !.containerPlugin = "none",
                       !.lastSwap.elemGone = TRUE,
                       !.lastSwap.placeholderDestroyed = TRUE,
                       !.lastSwap.steps = Append(@, "plugin()->destroy")])
     ELSE WebViewPluginDestroy(
            [s2 EXCEPT !.containerPlugin = current,
                       !.lastSwap.finished = TRUE,
                       !.lastSwap.replayedInto = new_plugin,
                       !.lastSwap.placeholderDestroyed = TRUE,
                       !.lastSwap.steps = @ \o FinishSteps])

\* LoadablePluginPlaceholder::ReplacePlugin(new_plugin).
ReplacePlugin(s, new_plugin, e) ==
  IF ~s.plugin_ THEN [s EXCEPT !.crashed = TRUE]          \* CHECK(plugin())
  ELSE
  LET s0 == [s EXCEPT !.attempts = @ + 1,
                      !.lastSwap = [NoSwap EXCEPT !.target = new_plugin,
                                                  !.blocked = LoadingBlocked(s),
                                                  !.contBefore = s.container]]
      \* container->setPlugin(new_plugin)
      s1 == [s0 EXCEPT !.containerPlugin = new_plugin,
                       !.installs = @ + 1,
                       !.lastSwap.installed = TRUE,
                       !.lastSwap.steps = Append(@, "setPlugin(new_plugin)")]
      plugin_needs_initialization ==
        ~s.premade_throttler_ \/ new_plugin # "premade"
      \* new_plugin->initialize(container)
      s2 == IF plugin_needs_initialization
            THEN [s1 EXCEPT !.lastSwap.initialized = TRUE,
                            !.lastSwap.steps = Append(@, "initialize")]
            ELSE s1
      \* container->plugin(), re-fetched after the initialization
      current == IF plugin_needs_initialization /\ e.selfReplaced
                 THEN "other" ELSE new_plugin
  IN IF new_plugin = "null" THEN s0
     ELSE IF ~s.container THEN DestroyNewPlugin(s0, new_plugin)
     ELSE IF plugin_needs_initialization /\ ~e.initOk
     THEN LET s3 == [s2 EXCEPT !.lastSwap.initFailed = TRUE,
                               !.lastSwap.contAfterFail = e.contAfter]
          IN IF e.contAfter
             THEN DestroyNewPlugin(
                    [s3 EXCEPT !.containerPlugin = "placeholder",
                               !.lastSwap.restored = TRUE,
                               !.lastSwap.steps = Append(@, "setPlugin(plugin())")],
                    new_plugin)
             ELSE s3
     ELSE IF plugin_needs_initialization /\ ~e.elemAfter
     THEN WebViewPluginDestroy(
            [s2 EXCEPT !.containerPlugin = "none",
                       !.lastSwap.elemGone = TRUE,
                       !.lastSwap.placeholderDestroyed = TRUE,
                       !.lastSwap.steps = Append(@, "plugin()->destroy")])
     ELSE WebViewPluginDestroy(
            [s2 EXCEPT !.containerPlugin = current,
                       !.lastSwap.finished = TRUE,
                       !.lastSwap.replayedInto = current,
                       !.lastSwap.placeholderDestroyed = TRUE,
                       !.lastSwap.steps = @ \o FinishSteps])

\* LoadPlugin without its test of plugin().
LoadPluginNoPluginTest(s, e) ==
  IF s.hidden_ THEN s
  ELSE IF ~s.allow_loading_ THEN [s EXCEPT !.dcheck = TRUE]
  ELSE IF s.premade_throttler_
  THEN LET s1 == [TouchPremade(s) EXCEPT !.premadeHidden = FALSE]
           s2 == ReplacePlugin([s1 EXCEPT !.premadeHandedOff = TRUE], "premade", e)
       IN [s2 EXCEPT !.premade_throttler_ = FALSE]
  ELSE ReplacePlugin([s EXCEPT !.created = @ + 1],
                     IF e.createOk THEN "created" ELSE "null", e)

\* LoadPlugin without its test of allow_loading_.
LoadPluginNoAllowTest(s, e) ==
  IF s.hidden_ THEN s
  ELSE IF ~s.plugin_ THEN s
  ELSE IF s.premade_throttler_
  THEN LET s1 == [TouchPremade(s) EXCEPT !.premadeHidden = FALSE]
           s2 == ReplacePlugin([s1 EXCEPT !.premadeHandedOff = TRUE], "premade", e)
       IN [s2 EXCEPT !.premade_throttler_ = FALSE]
  ELSE ReplacePlugin([s EXCEPT !.created = @ + 1],
                     IF e.createOk THEN "created" ELSE "null", e)

\* LoadPlugin keeping premade_throttler_ after the premade plugin was handed
\* to ReplacePlugin.
LoadPluginKeepPremade(s, e) ==
  IF s.hidden_ THEN s
  ELSE IF ~s.plugin_ THEN s
  ELSE IF ~s.allow_loading_ THEN [s EXCEPT !.dcheck = TRUE]
  ELSE IF s.premade_throttler_
  THEN LET s1 == [TouchPremade(s) EXCEPT !.premadeHidden = FALSE]
       IN ReplacePlugin([s1 EXCEPT !.premadeHandedOff = TRUE], "premade", e)
  ELSE ReplacePlugin([s EXCEPT !.created = @ + 1],
                     IF e.createOk THEN "created" ELSE "null", e)

\* LoadPlugin handing the premade plugin over as it is, hidden or not.
LoadPluginNoUnhide(s, e) ==
  IF s.hidden_ THEN s
  ELSE IF ~s.plugin_ THEN s
  ELSE IF ~s.allow_loading_ THEN [s EXCEPT !.dcheck = TRUE]
  ELSE IF s.premade_throttler_
  THEN LET s2 == ReplacePlugin([s EXCEPT !.premadeHandedOff = TRUE], "premade", e)
       IN [s2 EXCEPT !.premade_throttler_ = FALSE]
  ELSE ReplacePlugin([s EXCEPT !.created = @ + 1],
                     IF e.createOk THEN "created" ELSE "null", e)

\* LoadablePluginPlaceholder::LoadPlugin().
LoadPlugin(s, e) ==
  IF s.hidden_ THEN s
  ELSE IF ~s.plugin_ THEN s
  ELSE IF ~s.allow_loading_ THEN [s EXCEPT !.dcheck = TRUE]     \* NOTREACHED()
  ELSE IF s.premade_throttler_
  THEN LET \* premade_throttler_->SetHiddenForPlaceholder(false)
           s1 == [TouchPremade(s) EXCEPT !.premadeHidden = FALSE]
           s2 == ReplacePlugin([s1 EXCEPT !.premadeHandedOff = TRUE], "premade", e)
       IN [s2 EXCEPT !.premade_throttler_ = FALSE]
  ELSE \* CreatePlugin() is the subclass's; it may return null
       ReplacePlugin([s EXCEPT !.created = @ + 1],
                     IF e.createOk THEN "created" ELSE "null", e)

\* MarkPluginEssential without its test of power_saver_enabled_.
MarkPluginEssentialNoTest(s, method, e) ==
  LET s1 == [s EXCEPT !.power_saver_enabled_ = FALSE]
      s2 == IF s1.premade_throttler_
            THEN [TouchPremade(s1) EXCEPT !.premadeEssential = method]
            ELSE IF method # UNTHROTTLE_METHOD_DO_NOT_RECORD
            THEN RecordUnthrottleMethodMetric(s1, method)
            ELSE s1
  IN IF s2.is_blocked_for_power_saver_poster_
     THEN LET s3 == LoadingBlockedDcheck(
                      [s2 EXCEPT !.is_blocked_for_power_saver_poster_ = FALSE])
          IN IF ~LoadingBlocked(s3) THEN LoadPlugin(s3, e) ELSE s3
     ELSE s2

\* MarkPluginEssential leaving power_saver_enabled_ set.
MarkPluginEssentialKeepsEnabled(s, method, e) ==
  IF ~s.power_saver_enabled_ THEN s
  ELSE
  LET s2 == IF s.premade_throttler_
            THEN [TouchPremade(s) EXCEPT !.premadeEssential = method]
            ELSE IF method # UNTHROTTLE_METHOD_DO_NOT_RECORD
            THEN RecordUnthrottleMethodMetric(s, method)
            ELSE s
  IN IF s2.is_blocked_for_power_saver_poster_
     THEN LET s3 == LoadingBlockedDcheck(
                      [s2 EXCEPT !.is_blocked_for_power_saver_poster_ = FALSE])
          IN IF ~LoadingBlocked(s3) THEN LoadPlugin(s3, e) ELSE s3
     ELSE s2

\* LoadablePluginPlaceholder::MarkPluginEssential(method).
MarkPluginEssential(s, method, e) ==
  IF ~s.power_saver_enabled_ THEN s
  ELSE
  LET s1 == [s EXCEPT !.power_saver_enabled_ = FALSE]
      s2 == IF s1.premade_throttler_
            THEN [TouchPremade(s1) EXCEPT !.premadeEssential = method]
            ELSE IF method # UNTHROTTLE_METHOD_DO_NOT_RECORD
            THEN RecordUnthrottleMethodMetric(s1, method)
            ELSE s1
  IN IF s2.is_blocked_for_power_saver_poster_
     THEN LET s3 == LoadingBlockedDcheck(
                      [s2 EXCEPT !.is_blocked_for_power_saver_poster_ = FALSE])
          IN IF ~LoadingBlocked(s3) THEN LoadPlugin(s3, e) ELSE s3
     ELSE s2

\* LoadablePluginPlaceholder::UpdateMessage().
UpdateMessage(s) ==
  IF ~s.plugin_ THEN s ELSE [s EXCEPT !.uiMessage = s.message_]

\* SetMessage pushing the message whether or not the placeholder has
\* finished loading.
SetMessageAlwaysPush(s, message) ==
  UpdateMessage([s EXCEPT !.message_ = message])

\* LoadablePluginPlaceholder::SetMessage(message).
SetMessage(s, message) ==
  LET s1 == [s EXCEPT !.message_ = message]
  IN IF s1.finished_loading_ THEN UpdateMessage(s1) ELSE s1

\* LoadablePluginPlaceholder::GetV8ScriptableObject(): reads through the
\* premade plugin when one is held, and changes nothing.
GetV8ScriptableObject(s) ==
  IF s.premade_throttler_ THEN TouchPremade(s) ELSE s

\* OnLoadedRectUpdate(rect, status) is the subclass's: the decision about a
\* delayed placeholder is delegated, and this class keeps no trace of it.
OnLoadedRectUpdate(s, status) == s

\* OnUnobscuredRectUpdate attributing every evaluation to the size change,
\* the first one too.
OnUnobscuredRectUpdateAlwaysSizeChange(s, unobscured_rect, status, e) ==
  IF ~s.plugin_ \/ ~s.finished_loading_ THEN s
  ELSE IF s.unobscured_rect_ = unobscured_rect THEN s
  ELSE
  LET s1 == [s EXCEPT !.unobscured_rect_ = unobscured_rect]
  IN IF ~s1.container THEN [s1 EXCEPT !.crashed = TRUE]
     ELSE IF s1.is_delayed_placeholder_
     THEN [OnLoadedRectUpdate(s1, status) EXCEPT !.is_delayed_placeholder_ = FALSE]
     ELSE IF s1.is_blocked_for_power_saver_poster_
     THEN LET s2 == [s1 EXCEPT !.evals = @ + 1]
              s3 == IF status # CONTENT_STATUS_PERIPHERAL
                    THEN LET s4 == MarkPluginEssential(
                                     s2, UNTHROTTLE_METHOD_BY_SIZE_CHANGE, e)
                         IN IF ~s4.heuristic_run_before_
                               /\ status = CONTENT_STATUS_ESSENTIAL_CROSS_ORIGIN_BIG
                            THEN [s4 EXCEPT !.whitelisted =
                                    Append(@, [eval |-> s4.evals,
                                               heuristic_run_before_ |->
                                                 s4.heuristic_run_before_,
                                               status |-> status])]
                            ELSE s4
                    ELSE s2
          IN [s3 EXCEPT !.heuristic_run_before_ = TRUE]
     ELSE s1

\* OnUnobscuredRectUpdate allow-listing the origin on every evaluation
\* classified ESSENTIAL_CROSS_ORIGIN_BIG, not only on the first.
OnUnobscuredRectUpdateWhitelistAlways(s, unobscured_rect, status, e) ==
  IF ~s.plugin_ \/ ~s.finished_loading_ THEN s
  ELSE IF s.unobscured_rect_ = unobscured_rect THEN s
  ELSE
  LET s1 == [s EXCEPT !.unobscured_rect_ = unobscured_rect]
  IN IF ~s1.container THEN [s1 EXCEPT !.crashed = TRUE]
     ELSE IF s1.is_delayed_placeholder_
     THEN [OnLoadedRectUpdate(s1, status) EXCEPT !.is_delayed_placeholder_ = FALSE]
     ELSE IF s1.is_blocked_for_power_saver_poster_
     THEN LET s2 == [s1 EXCEPT !.evals = @ + 1]
              s3 == IF status # CONTENT_STATUS_PERIPHERAL
                    THEN LET s4 == MarkPluginEssential(
                                     s2,
                                     IF s2.heuristic_run_before_
                                     THEN UNTHROTTLE_METHOD_BY_SIZE_CHANGE
                                     ELSE UNTHROTTLE_METHOD_DO_NOT_RECORD,
                                     e)
                         IN IF status = CONTENT_STATUS_ESSENTIAL_CROSS_ORIGIN_BIG
                            THEN [s4 EXCEPT !.whitelisted =
                                    Append(@, [eval |-> s4.evals,
                                               heuristic_run_before_ |->
                                                 s4.heuristic_run_before_,
                                               status |-> status])]
                            ELSE s4
                    ELSE s2
          IN [s3 EXCEPT !.heuristic_run_before_ = TRUE]
     ELSE s1

\* OnUnobscuredRectUpdate processing an update whose rect is the one it
\* processed last.
OnUnobscuredRectUpdateNoSameRectTest(s, unobscured_rect, status, e) ==
  IF ~s.plugin_ \/ ~s.finished_loading_ THEN s
  ELSE
  LET s1 == [s EXCEPT !.unobscured_rect_ = unobscured_rect]
  IN IF ~s1.container THEN [s1 EXCEPT !.crashed = TRUE]
     ELSE IF s1.is_delayed_placeholder_
     THEN [OnLoadedRectUpdate(s1, status) EXCEPT !.is_delayed_placeholder_ = FALSE]
     ELSE IF s1.is_blocked_for_power_saver_poster_
     THEN LET s2 == [s1 EXCEPT !.evals = @ + 1]
              s3 == IF status # CONTENT_STATUS_PERIPHERAL
                    THEN LET s4 == MarkPluginEssential(
                                     s2,
                                     IF s2.heuristic_run_before_
                                     THEN UNTHROTTLE_METHOD_BY_SIZE_CHANGE
                                     ELSE UNTHROTTLE_METHOD_DO_NOT_RECORD,
                                     e)
                         IN IF ~s4.heuristic_run_before_
                               /\ status = CONTENT_STATUS_ESSENTIAL_CROSS_ORIGIN_BIG
                            THEN [s4 EXCEPT !.whitelisted =
                                    Append(@, [eval |-> s4.evals,
                                               heuristic_run_before_ |->
                                                 s4.heuristic_run_before_,
                                               status |-> status])]
                            ELSE s4
                    ELSE s2
          IN [s3 EXCEPT !.heuristic_run_before_ = TRUE]
     ELSE s1

\* LoadablePluginPlaceholder::OnUnobscuredRectUpdate(unobscured_rect), with the
\* status GetPeripheralContentStatus returns for the rect.
OnUnobscuredRectUpdate(s, unobscured_rect, status, e) ==
  IF ~s.plugin_ \/ ~s.finished_loading_ THEN s
  ELSE IF s.unobscured_rect_ = unobscured_rect THEN s
  ELSE
  LET s1 == [s EXCEPT !.unobscured_rect_ = unobscured_rect]
  IN IF ~s1.container THEN [s1 EXCEPT !.crashed = TRUE]  \* plugin()->container()->...
     ELSE IF s1.is_delayed_placeholder_
     THEN [OnLoadedRectUpdate(s1, status) EXCEPT !.is_delayed_placeholder_ = FALSE]
     ELSE IF s1.is_blocked_for_power_saver_poster_
     THEN LET s2 == [s1 EXCEPT !.evals = @ + 1]
              s3 == IF status # CONTENT_STATUS_PERIPHERAL
                    THEN LET s4 == MarkPluginEssential(
                                     s2,
                                     IF s2.heuristic_run_before_
                                     THEN UNTHROTTLE_METHOD_BY_SIZE_CHANGE
                                     ELSE UNTHROTTLE_METHOD_DO_NOT_RECORD,
                                     e)
                         IN IF ~s4.heuristic_run_before_
                               /\ status = CONTENT_STATUS_ESSENTIAL_CROSS_ORIGIN_BIG
                            THEN [s4 EXCEPT !.whitelisted =
                                    Append(@, [eval |-> s4.evals,
                                               heuristic_run_before_ |->
                                                 s4.heuristic_run_before_,
                                               status |-> status])]
                            ELSE s4
                    ELSE s2
          IN [s3 EXCEPT !.heuristic_run_before_ = TRUE]
     ELSE s1

\* WasShown without its test of is_blocked_for_background_tab_.
WasShownNoTest(s, e) ==
  LET s1 == LoadingBlockedDcheck(
              [s EXCEPT !.is_blocked_for_background_tab_ = FALSE])
  IN IF ~LoadingBlocked(s1) THEN LoadPlugin(s1, e) ELSE s1

\* LoadablePluginPlaceholder::WasShown().
WasShown(s, e) ==
  IF s.is_blocked_for_background_tab_
  THEN LET s1 == LoadingBlockedDcheck(
                   [s EXCEPT !.is_blocked_for_background_tab_ = FALSE])
       IN IF ~LoadingBlocked(s1) THEN LoadPlugin(s1, e) ELSE s1
  ELSE s

\* OnLoadBlockedPlugins without its test of the identifier.
OnLoadBlockedPluginsAnyIdentifier(s, identifier, e) ==
  LoadPlugin(s, e)

\* LoadablePluginPlaceholder::OnLoadBlockedPlugins(identifier).
OnLoadBlockedPlugins(s, identifier, e) ==
  IF identifier # "" /\ identifier # s.identifier_ THEN s
  ELSE LoadPlugin(s, e)

\* OnSetIsPrerendering loading as soon as its own flag is cleared, whatever
\* LoadingBlocked() says.
OnSetIsPrerenderingNoBlockedTest(s, is_prerendering, e) ==
  LET s0 == [s EXCEPT !.dcheck = @ \/ is_prerendering]
  IN IF s0.is_blocked_for_prerendering_
     THEN LoadPlugin(LoadingBlockedDcheck(
                       [s0 EXCEPT !.is_blocked_for_prerendering_ = FALSE]), e)
     ELSE s0

\* LoadablePluginPlaceholder::OnSetIsPrerendering(is_prerendering).
OnSetIsPrerendering(s, is_prerendering, e) ==
  LET s0 == [s EXCEPT !.dcheck = @ \/ is_prerendering]   \* DCHECK(!is_prerendering)
  IN IF s0.is_blocked_for_prerendering_
     THEN LET s1 == LoadingBlockedDcheck(
                      [s0 EXCEPT !.is_blocked_for_prerendering_ = FALSE])
          IN IF ~LoadingBlocked(s1) THEN LoadPlugin(s1, e) ELSE s1
     ELSE s0

\* LoadablePluginPlaceholder::LoadCallback().
LoadCallback(s, e) ==
  LoadPlugin(MarkPluginEssential(s, UNTHROTTLE_METHOD_BY_CLICK, e), e)

\* LoadablePluginPlaceholder::DidFinishLoadingCallback().
DidFinishLoadingCallback(s) ==
  LET s1 == [s EXCEPT !.finished_loading_ = TRUE]
      s2 == IF s1.message_ # "" THEN UpdateMessage(s1) ELSE s1
      s3 == IF s2.premade_throttler_ /\ s2.power_saver_enabled_
            THEN [TouchPremade(s2) EXCEPT !.premadeHidden = TRUE]
            ELSE s2
  IN IF s3.plugin_ /\ ~s3.container
     THEN [s3 EXCEPT !.crashed = TRUE]                   \* CHECK(plugin()->container())
     ELSE s3

\* LoadablePluginPlaceholder::BlockForPowerSaverPoster().
BlockForPowerSaverPoster(s) ==
  [s EXCEPT !.dcheck = @ \/ s.is_blocked_for_power_saver_poster_,
            !.is_blocked_for_power_saver_poster_ = TRUE,
            !.peripheralRegistered = TRUE]

\* LoadablePluginPlaceholder::SetPremadePlugin(throttler).
SetPremadePlugin(s) ==
  [s EXCEPT !.dcheck = @ \/ s.premade_throttler_,
            !.premade_throttler_ = TRUE,
            !.premadeSupplied = TRUE]

\* LoadablePluginPlaceholder::SetIdentifier(identifier).
SetIdentifier(s, identifier) ==
  [s EXCEPT !.identifier_ = identifier]

\* ------------------------------------------------------------ construction
\* LoadablePluginPlaceholder::LoadablePluginPlaceholder(): the member
\* initializers in their order; heuristic_run_before_ is computed from the
\* premade_throttler_ that the initializer before it has just set to nullptr.
\* The base class has created the placeholder's own plugin, not yet attached
\* to a container.
Constructed ==
  LET premade_throttler_0 == FALSE
  IN [ is_delayed_placeholder_ |-> FALSE,
       is_blocked_for_background_tab_ |-> FALSE,
       is_blocked_for_prerendering_ |-> FALSE,
       is_blocked_for_power_saver_poster_ |-> FALSE,
       power_saver_enabled_ |-> FALSE,
       premade_throttler_ |-> premade_throttler_0,
       allow_loading_ |-> FALSE,
       finished_loading_ |-> FALSE,
       heuristic_run_before_ |-> (premade_throttler_0 # FALSE),
       identifier_ |-> "",
       message_ |-> "",
       unobscured_rect_ |-> 0,
       plugin_ |-> TRUE,
       hidden_ |-> FALSE,
       container |-> FALSE,
       containerPlugin |-> "none",
       premadeHidden |-> FALSE,
       premadeEssential |-> "none",
       premadeDestroyed |-> 0,
       uiMessage |-> "",
       phase |-> "setup",
       crashed |-> FALSE,
       dcheck |-> FALSE,
       metrics |-> << >>,
       whitelisted |-> << >>,
       evals |-> 0,
       attempts |-> 0,
       created |-> 0,
       installs |-> 0,
       lastSwap |-> NoSwap,
       peripheralRegistered |-> FALSE,
       premadeSupplied |-> FALSE,
       premadeHandedOff |-> FALSE,
       touchedAfterHandoff |-> FALSE,
       installedDestroyed |-> FALSE ]

Init ==
  LET t == Constructed
  IN
    /\ is_delayed_placeholder_ = t.is_delayed_placeholder_
    /\ is_blocked_for_background_tab_ = t.is_blocked_for_background_tab_
    /\ is_blocked_for_prerendering_ = t.is_blocked_for_prerendering_
    /\ is_blocked_for_power_saver_poster_ = t.is_blocked_for_power_saver_poster_
    /\ power_saver_enabled_ = t.power_saver_enabled_
    /\ premade_throttler_ = t.premade_throttler_
    /\ allow_loading_ = t.allow_loading_
    /\ finished_loading_ = t.finished_loading_
    /\ heuristic_run_before_ = t.heuristic_run_before_
    /\ identifier_ = t.identifier_
    /\ message_ = t.message_
    /\ unobscured_rect_ = t.unobscured_rect_
    /\ plugin_ = t.plugin_
    /\ hidden_ = t.hidden_
    /\ container = t.container
    /\ containerPlugin = t.containerPlugin
    /\ premadeHidden = t.premadeHidden
    /\ premadeEssential = t.premadeEssential
    /\ premadeDestroyed = t.premadeDestroyed
    /\ uiMessage = t.uiMessage
    /\ phase = t.phase
    /\ crashed = t.crashed
    /\ dcheck = t.dcheck
    /\ metrics = t.metrics
    /\ whitelisted = t.whitelisted
    /\ evals = t.evals
    /\ attempts = t.attempts
    /\ created = t.created
    /\ installs = t.installs
    /\ lastSwap = t.lastSwap
    /\ peripheralRegistered = t.peripheralRegistered
    /\ premadeSupplied = t.premadeSupplied
    /\ premadeHandedOff = t.premadeHandedOff
    /\ touchedAfterHandoff = t.touchedAfterHandoff
    /\ installedDestroyed = t.installedDestroyed

\* ----------------------------------------------------------------- actions
\* The state a handler starts from: the DCHECK mark is the handler's own.
Begin == [Cur EXCEPT !.dcheck = FALSE]

\* The host's answers worth listing in the current state: LoadPlugin returns
\* before it asks the host anything when the placeholder is hidden, its
\* plugin is gone or loading is not allowed, and nothing else asks.
Hosts == IF plugin_ /\ ~hidden_ /\ allow_loading_ THEN HostInputs ELSE {HostDefault}

Setup == phase = "setup" /\ ~crashed
Live == phase = "live" /\ ~crashed

\* The factory that creates the placeholder configures it before any event
\* reaches it: the inline setters of the header, and the calls below.
set_delayed(s, b) == [s EXCEPT !.is_delayed_placeholder_ = b]
set_blocked_for_background_tab(s, b) == [s EXCEPT !.is_blocked_for_background_tab_ = b]
set_blocked_for_prerendering(s, b) == [s EXCEPT !.is_blocked_for_prerendering_ = b]
set_power_saver_enabled(s, b) == [s EXCEPT !.power_saver_enabled_ = b]
AllowLoading(s) == [s EXCEPT !.allow_loading_ = TRUE]

DoSetDelayed ==
  /\ Setup
  /\ \E b \in BOOLEAN : Commit(set_delayed(Begin, b))

DoSetBlockedForBackgroundTab ==
  /\ Setup
  /\ \E b \in BOOLEAN :
       Commit(set_blocked_for_background_tab(Begin, b))

DoSetBlockedForPrerendering ==
  /\ Setup
  /\ \E b \in BOOLEAN :
       Commit(set_blocked_for_prerendering(Begin, b))

DoSetPowerSaverEnabled ==
  /\ Setup
  /\ \E b \in BOOLEAN :
       Commit(set_power_saver_enabled(Begin, b))

DoBlockForPowerSaverPoster ==
  /\ Setup
  /\ ~is_blocked_for_power_saver_poster_
  /\ Commit(BlockForPowerSaverPoster(Begin))

DoSetPremadePlugin ==
  /\ Setup
  /\ ~premade_throttler_
  /\ Commit(SetPremadePlugin(Begin))

DoSetIdentifier ==
  /\ Setup
  /\ \E id \in Identifiers : Commit(SetIdentifier(Begin, id))

DoAllowLoading ==
  /\ Setup
  /\ Commit(AllowLoading(Begin))

\* The factory returns the placeholder: from here on the host sends events.
DoCreated ==
  /\ Setup
  /\ Commit([Begin EXCEPT !.phase = "live"])

\* The host attaches the placeholder's plugin to the element's container
\* (WebViewPlugin::initialize).
DoAttach ==
  /\ Live
  /\ plugin_ /\ ~container
  /\ Commit([Begin EXCEPT !.container = TRUE, !.containerPlugin = "placeholder"])

\* PluginPlaceholderBase::HideCallback(): the user closed the placeholder.
HideCallback(s) == [s EXCEPT !.hidden_ = TRUE]

DoHideCallback ==
  /\ Live
  /\ Commit(HideCallback(Begin))

DoWasShown ==
  /\ Live
  /\ \E e \in Hosts : Commit(WasShown(Begin, e))

DoOnSetIsPrerendering ==
  /\ Live
  /\ \E b \in BOOLEAN, e \in Hosts :
       Commit(OnSetIsPrerendering(Begin, b, e))

DoOnUnobscuredRectUpdate ==
  /\ Live
  /\ \E r \in Rects, status \in PeripheralContentStatus, e \in Hosts :
       Commit(OnUnobscuredRectUpdate(Begin, r, status, e))

DoLoadCallback ==
  /\ Live
  /\ \E e \in Hosts : Commit(LoadCallback(Begin, e))

DoOnLoadBlockedPlugins ==
  /\ Live
  /\ \E id \in Identifiers, e \in Hosts :
       Commit(OnLoadBlockedPlugins(Begin, id, e))

\* The callback BlockForPowerSaverPoster registered with the frame:
\* MarkPluginEssential(UNTHROTTLE_METHOD_BY_WHITELIST).
DoMarkPluginEssential ==
  /\ Live
  /\ peripheralRegistered
  /\ \E e \in Hosts :
       Commit(MarkPluginEssential(Begin, UNTHROTTLE_METHOD_BY_WHITELIST, e))

DoSetMessage ==
  /\ Live
  /\ \E m \in Messages : Commit(SetMessage(Begin, m))

DoDidFinishLoadingCallback ==
  /\ Live
  /\ Commit(DidFinishLoadingCallback(Begin))

DoGetV8ScriptableObject ==
  /\ Live
  /\ Commit(GetV8ScriptableObject(Begin))

\* The host destroys the placeholder's plugin with its container (the page
\* navigates away, the element is removed): WebViewPlugin::destroy().
DoPluginDestroyed ==
  /\ Live
  /\ plugin_
  /\ Commit(WebViewPluginDestroy(Begin))

Next ==
  \/ DoSetDelayed
  \/ DoSetBlockedForBackgroundTab
  \/ DoSetBlockedForPrerendering
  \/ DoSetPowerSaverEnabled
  \/ DoBlockForPowerSaverPoster
  \/ DoSetPremadePlugin
  \/ DoAllowLoading
  \/ DoCreated
  \/ DoAttach
  \/ DoHideCallback
  \/ DoWasShown
  \/ DoOnSetIsPrerendering
  \/ DoOnUnobscuredRectUpdate
  \/ DoLoadCallback
  \/ DoOnLoadBlockedPlugins
  \/ DoMarkPluginEssential
  \/ DoDidFinishLoadingCallback
  \/ DoGetV8ScriptableObject
  \/ DoPluginDestroyed

Spec == Init /\ [][Next]_vars

\* The identifier and the status message: the factory names the placeholder,
\* the host sets messages, and the events that load the plugin, finish the
\* placeholder's own loading or tear it down come in any order.
NextUI ==
  \/ DoSetIdentifier
  \/ DoSetBlockedForBackgroundTab
  \/ DoSetPowerSaverEnabled
  \/ DoBlockForPowerSaverPoster
  \/ DoSetPremadePlugin
  \/ DoAllowLoading
  \/ DoCreated
  \/ DoAttach
  \/ DoHideCallback
  \/ DoSetMessage
  \/ DoDidFinishLoadingCallback
  \/ DoWasShown
  \/ DoLoadCallback
  \/ DoMarkPluginEssential
  \/ DoOnLoadBlockedPlugins
  \/ DoPluginDestroyed

SpecUI == Init /\ [][NextUI]_vars

\* ------------------------------------------------------------------ claims
\* The methods MarkPluginEssential is called with.
UnthrottleMethods ==
  { UNTHROTTLE_METHOD_DO_NOT_RECORD, UNTHROTTLE_METHOD_BY_CLICK,
    UNTHROTTLE_METHOD_BY_WHITELIST, UNTHROTTLE_METHOD_BY_SIZE_CHANGE }

\* C1: no event performs the swap while a blocker is still set: whenever
\* ReplacePlugin has installed its target in the container, the blocker set
\* {BackgroundTab, Prerendering, PowerSaverPoster} was empty at that moment
\* (the "only if" half of the claim; allowLoading, not hidden and the
\* plugin's existence are what LoadPlugin itself tests).
C1_SwapOnlyWhenUnblocked ==
  lastSwap.installed => ~lastSwap.blocked

\* C2 as stated: once LoadPlugin has reached ReplacePlugin, however that call
\* ended, no later step creates a plugin or installs one into the container.
C2_AtMostOneAttempt ==
  [][attempts >= 1 => (created' = created /\ installs' = installs)]_vars

\* C2 as it holds: once a call of ReplacePlugin has destroyed the placeholder
\* (the swap completed, or the element left the page during the
\* initialization), no later step reaches ReplacePlugin, creates a plugin or
\* installs one into the container.
C2_NoAttemptAfterPlaceholderDestroyed ==
  [][lastSwap.placeholderDestroyed =>
       (attempts' = attempts /\ created' = created /\ installs' = installs
        /\ containerPlugin' = containerPlugin)]_vars

\* A completed swap, with events still to come.
C2_Witness ==
  /\ phase = "live" /\ ~crashed
  /\ attempts = 1 /\ lastSwap.finished /\ lastSwap.placeholderDestroyed
  /\ ~plugin_ /\ ~hidden_ /\ allow_loading_

\* C3: once LoadPlugin has handed the premade plugin to the swap, nothing
\* marks essential through, hides, destroys or reads through the premade
\* handle, and the gate never destroys the plugin the container holds.
C3_PremadeUntouchedAfterHandoff ==
  ~touchedAfterHandoff /\ ~installedDestroyed

\* C4: when the placeholder is torn down before any swap while a premade
\* plugin is held, the premade plugin has been destroyed (once) and the field
\* cleared, whatever power_saver_enabled_ was.
C4_TeardownDestroysPremade ==
  (~plugin_ /\ attempts = 0 /\ premadeSupplied) =>
    (~premade_throttler_ /\ premadeDestroyed = 1)

\* C5: MarkPluginEssential called while power_saver_enabled_ is false returns
\* with nothing changed: no metric, no call on the premade plugin, the poster
\* flag and every other field as before, no load attempt.
C5_MarkEssentialNoOpWhenInactive ==
  (phase = "live" /\ ~power_saver_enabled_) =>
    \A method \in UnthrottleMethods, e \in HostInputs :
      MarkPluginEssential(Cur, method, e) = Cur

\* The plugin was marked essential by the registered callback and was not
\* loaded; the callback may come again.
C5_Witness ==
  /\ phase = "live" /\ ~crashed /\ peripheralRegistered
  /\ ~power_saver_enabled_
  /\ metrics = << UNTHROTTLE_METHOD_BY_WHITELIST >>
  /\ plugin_ /\ attempts = 0

\* C6: WasShown with the background-tab flag already cleared, and
\* OnSetIsPrerendering(false) with the prerendering flag already cleared,
\* change nothing and attempt no load; and with blockers = {BackgroundTab},
\* loading allowed, the placeholder shown and its plugin alive, WasShown
\* reaches ReplacePlugin once and a second WasShown changes nothing.
C6_ClearingIsIdempotent ==
  /\ (phase = "live" /\ ~is_blocked_for_background_tab_) =>
       \A e \in HostInputs : WasShown(Cur, e) = Cur
  /\ (phase = "live" /\ ~is_blocked_for_prerendering_) =>
       \A e \in HostInputs : OnSetIsPrerendering(Cur, FALSE, e) = Cur
  /\ (phase = "live" /\ Blockers(Cur) = {"BackgroundTab"}
      /\ allow_loading_ /\ ~hidden_ /\ plugin_) =>
       \A e \in HostInputs :
         LET t == WasShown(Cur, e)
         IN /\ t.attempts = attempts + 1
            /\ Blockers(t) = {}
            /\ \A e2 \in HostInputs : WasShown(t, e2) = t

\* The scenario's state: only the background tab blocks an attached, shown
\* placeholder, and the tab being shown completes the swap.
C6_Witness ==
  /\ phase = "live" /\ ~crashed
  /\ Blockers(Cur) = {"BackgroundTab"} /\ allow_loading_ /\ ~hidden_
  /\ plugin_ /\ container /\ attempts = 0
  /\ WasShown(Cur, HostDefault).lastSwap.finished

\* C7: when the initialization of a newly created target has failed, the
\* placeholder is the container's plugin again and the target is destroyed
\* if the target still had its container, and nothing more was done if it
\* had not; either way the placeholder was not destroyed, no title, geometry
\* or replay step ran, and nothing fatal happened.
C7_InitFailureRestoresPlaceholder ==
  lastSwap.initFailed =>
    /\ lastSwap.target = "created" /\ lastSwap.installed /\ lastSwap.initialized
    /\ lastSwap.contAfterFail =>
         (lastSwap.restored /\ lastSwap.targetDestroyed
          /\ containerPlugin = "placeholder")
    /\ ~lastSwap.contAfterFail =>
         (~lastSwap.restored /\ ~lastSwap.targetDestroyed
          /\ containerPlugin = "created")
    /\ ~lastSwap.placeholderDestroyed
    /\ ~lastSwap.elemGone
    /\ ~lastSwap.finished /\ lastSwap.replayedInto = "none"
    /\ ~crashed

C7_Witness ==
  /\ lastSwap.initFailed /\ lastSwap.contAfterFail
  /\ plugin_ /\ containerPlugin = "placeholder"

\* The state a size update is evaluated by the heuristic in, for rect r: the
\* update is processed (plugin alive and attached, placeholder loaded, a new
\* rect), the placeholder is not a delayed one, the poster is the only
\* blocker, and nothing else stops a load.
C8_Evaluated(r) ==
  /\ phase = "live"
  /\ plugin_ /\ container /\ finished_loading_ /\ r # unobscured_rect_
  /\ ~is_delayed_placeholder_
  /\ Blockers(Cur) = {"PowerSaverPoster"}
  /\ allow_loading_ /\ ~hidden_

\* What C8 says of the update of rect r classified status, with host e.
C8_Effect(r, status, e) ==
  LET t == OnUnobscuredRectUpdate(Cur, r, status, e)
      method == IF heuristic_run_before_
                THEN UNTHROTTLE_METHOD_BY_SIZE_CHANGE
                ELSE UNTHROTTLE_METHOD_DO_NOT_RECORD
  IN /\ ~t.power_saver_enabled_
     /\ IF premade_throttler_
        THEN t.premadeEssential = method /\ t.metrics = metrics
        ELSE t.metrics = IF heuristic_run_before_
                         THEN Append(metrics, UNTHROTTLE_METHOD_BY_SIZE_CHANGE)
                         ELSE metrics
     /\ t.heuristic_run_before_
     /\ ~t.is_blocked_for_power_saver_poster_
     /\ t.attempts = attempts + 1

C9_WhitelistOnlyOnFirstEvaluation ==
  /\ Len(whitelisted) <= 1
  /\ \A i \in 1..Len(whitelisted) :
       /\ whitelisted[i].eval = 1
       /\ ~whitelisted[i].heuristic_run_before_
       /\ whitelisted[i].status = CONTENT_STATUS_ESSENTIAL_CROSS_ORIGIN_BIG

\* Allow-listed by the first evaluation, and a second evaluation has run.
C9_Witness ==
  Len(whitelisted) = 1 /\ evals = 2

\* C10: an instance a premade plugin was supplied to has
\* heuristic_run_before_ true before its first evaluation of the heuristic.
C10_PremadeSeedsHeuristicRunBefore ==
  (premadeSupplied /\ evals = 0) => heuristic_run_before_

\* C11 as stated: every call of LoadPlugin made while allow_loading_ is false
\* hits the assertion (NOTREACHED) and reaches no swap.
C11_EveryCallAsserts ==
  (phase = "live" /\ ~allow_loading_) =>
    \A e \in HostInputs :
      LET t == LoadPlugin(Begin, e)
      IN t.dcheck /\ t.attempts = attempts /\ t.installs = installs

\* C11 as it holds: a call of LoadPlugin made while allow_loading_ is false
\* hits the assertion when the placeholder is not hidden and its plugin is
\* alive, and returns silently, with nothing changed, when it is hidden or its
\* plugin is gone; either way it reaches no swap, and in no state has
\* ReplacePlugin been reached with allow_loading_ false.
C11_AssertsUnlessHiddenOrGone ==
  /\ (phase = "live" /\ ~allow_loading_) =>
       \A e \in HostInputs :
         LET t == LoadPlugin(Begin, e)
         IN /\ t.attempts = attempts /\ t.installs = installs
            /\ t.created = created /\ t.containerPlugin = containerPlugin
            /\ (~hidden_ /\ plugin_) => t = [Begin EXCEPT !.dcheck = TRUE]
            /\ (hidden_ \/ ~plugin_) => t = Begin
  /\ (attempts >= 1 \/ installs >= 1 \/ created >= 1) => allow_loading_

\* A broadcast or a click has reached LoadPlugin before loading was allowed:
\* the assertion was hit and the placeholder is still in its container.
C11_Witness ==
  /\ phase = "live" /\ ~crashed /\ ~allow_loading_
  /\ Blockers(Cur) = {} /\ plugin_ /\ ~hidden_ /\ container
  /\ dcheck /\ attempts = 0 /\ containerPlugin = "placeholder"

\* C12: OnSetIsPrerendering(true) hits the assertion; OnSetIsPrerendering(false)
\* removes the Prerendering blocker when it is set and no other, changes
\* nothing when it is not set, reaches the swap only with no blocker left,
\* and does reach it then (loading allowed, placeholder shown, plugin alive).
C12_PrerenderingEnded ==
  phase = "live" =>
    \A e \in HostInputs :
      /\ OnSetIsPrerendering(Begin, TRUE, e).dcheck
      /\ LET t == OnSetIsPrerendering(Begin, FALSE, e)
         IN /\ Blockers(t) = Blockers(Cur) \ {"Prerendering"}
            /\ ~is_blocked_for_prerendering_ => t = Begin
            /\ t.attempts > attempts =>
                 (is_blocked_for_prerendering_ /\ Blockers(t) = {})
            /\ (Blockers(Cur) = {"Prerendering"}
                /\ allow_loading_ /\ ~hidden_ /\ plugin_) =>
                 (t.attempts = attempts + 1 /\ ~t.dcheck)
            /\ (is_blocked_for_prerendering_
                /\ Blockers(Cur) # {"Prerendering"}) =>
                 t = [LoadingBlockedDcheck(Begin)
                        EXCEPT !.is_blocked_for_prerendering_ = FALSE]

\* Prerendering and the background tab both block an attached placeholder:
\* the end of prerendering leaves the background-tab blocker and loads nothing.
C12_Witness ==
  /\ phase = "live" /\ ~crashed
  /\ Blockers(Cur) = {"BackgroundTab", "Prerendering"}
  /\ allow_loading_ /\ ~hidden_ /\ plugin_ /\ container
  /\ LET t == OnSetIsPrerendering(Begin, FALSE, HostDefault)
     IN Blockers(t) = {"BackgroundTab"} /\ t.attempts = 0

\* C13: a click never removes BackgroundTab or Prerendering from the blocker
\* set, and while either of them is still set after the click no swap is
\* reached and the placeholder stays in its container.
C13_ClickOverridesOnlyPoster ==
  phase = "live" =>
    \A e \in HostInputs :
      LET t == LoadCallback(Begin, e)
      IN /\ Blockers(Cur) \ {"PowerSaverPoster"} \subseteq Blockers(t)
         /\ (t.is_blocked_for_background_tab_ \/ t.is_blocked_for_prerendering_) =>
              /\ t.attempts = attempts /\ t.installs = installs
              /\ t.containerPlugin = containerPlugin /\ t.plugin_ = plugin_

\* C14: a broadcast with a non-empty identifier other than identifier_ changes
\* nothing; a broadcast with the empty identifier or with identifier_ is a
\* call of LoadPlugin and nothing else: the blocker flags are neither read
\* (the swap is reached with blockers set, when loading is allowed, the
\* placeholder shown and its plugin alive) nor changed, and the plugin is not
\* marked essential (no call on the throttler, no unthrottle metric but the
\* NEVER of the placeholder's teardown).
C14_BroadcastByIdentifier ==
  phase = "live" =>
    \A id \in Identifiers, e \in HostInputs :
      LET t == OnLoadBlockedPlugins(Begin, id, e)
      IN IF id # "" /\ id # identifier_
         THEN t = Begin
         ELSE /\ t = LoadPlugin(Begin, e)
              /\ Blockers(t) = Blockers(Cur)
              /\ t.premadeEssential = premadeEssential
              /\ t.metrics \in {metrics, Append(metrics, UNTHROTTLE_METHOD_NEVER)}
              /\ (allow_loading_ /\ ~hidden_ /\ plugin_) =>
                   t.attempts = attempts + 1

\* A named placeholder, blocked by the background tab: the broadcast with its
\* name swaps the plugin in, the broadcast with another name does nothing.
C14_Witness ==
  /\ phase = "live" /\ ~crashed /\ identifier_ = "a"
  /\ Blockers(Cur) = {"BackgroundTab"}
  /\ allow_loading_ /\ ~hidden_ /\ plugin_ /\ container /\ attempts = 0
  /\ OnLoadBlockedPlugins(Begin, "a", HostDefault).lastSwap.finished
  /\ OnLoadBlockedPlugins(Begin, "b", HostDefault) = Begin

\* C15: before the placeholder has finished loading nothing is shown and
\* SetMessage only stores the message; DidFinishLoadingCallback shows the
\* stored message when it is not empty; afterwards SetMessage shows the
\* message at once; all this while the placeholder's plugin exists, so that a
\* loaded placeholder whose plugin exists shows the message last set.
C15_MessageShownOnceLoaded ==
  /\ ~finished_loading_ => uiMessage = ""
  /\ (finished_loading_ /\ plugin_) => uiMessage = message_
  /\ phase = "live" =>
       /\ \A m \in Messages :
            LET t == SetMessage(Cur, m)
            IN /\ t = [Cur EXCEPT !.message_ = m,
                                  !.uiMessage = IF finished_loading_ /\ plugin_
                                                THEN m ELSE uiMessage]
       /\ LET t == DidFinishLoadingCallback(Cur)
          IN /\ t.finished_loading_ /\ t.message_ = message_
             /\ t.uiMessage = IF message_ # "" /\ plugin_
                              THEN message_ ELSE uiMessage

\* The placeholder has finished loading and shows the message that was set.
C15_Witness ==
  /\ phase = "live" /\ ~crashed
  /\ finished_loading_ /\ plugin_ /\ message_ = "m" /\ uiMessage = "m"

\* C16: when plugin()->container() is null at the start of the swap, the
\* target is destroyed and nothing else is done: nothing installed, nothing
\* initialized, the placeholder not destroyed; for a premade target too, whose
\* field is cleared, and the premade plugin is never destroyed twice.
C16_ContainerGoneAborts ==
  /\ (lastSwap.target \in {"premade", "created"} /\ ~lastSwap.contBefore) =>
       /\ lastSwap.targetDestroyed
       /\ ~lastSwap.installed /\ ~lastSwap.initialized
       /\ ~lastSwap.placeholderDestroyed /\ ~lastSwap.finished
       /\ lastSwap.steps = << "new_plugin->destroy" >>
       /\ lastSwap.target = "premade" =>
            (~premade_throttler_ /\ premadeDestroyed = 1)
  /\ premadeDestroyed <= 1

\* The premade plugin met no container and was destroyed; the placeholder has
\* been torn down since.
C16_Witness ==
  /\ lastSwap.target = "premade" /\ ~lastSwap.contBefore
  /\ lastSwap.targetDestroyed /\ premadeDestroyed = 1 /\ ~plugin_

\* C17: when the element has lost its container during the initialization,
\* the placeholder is destroyed and nothing else follows the initialization;
\* otherwise the buffered data is replayed into the plugin the container
\* holds after the initialization, and the placeholder is destroyed last,
\* right after the replay.
C17_RevalidatesAfterInitialization ==
  /\ lastSwap.elemGone =>
       /\ lastSwap.installed /\ lastSwap.initialized
       /\ lastSwap.placeholderDestroyed /\ ~plugin_
       /\ ~lastSwap.finished /\ lastSwap.replayedInto = "none"
       /\ lastSwap.steps =
            << "setPlugin(new_plugin)", "initialize", "plugin()->destroy" >>
  /\ lastSwap.finished =>
       /\ lastSwap.installed /\ ~lastSwap.elemGone
       /\ lastSwap.replayedInto = containerPlugin
       /\ lastSwap.placeholderDestroyed /\ ~plugin_
       /\ LET n == Len(lastSwap.steps)
          IN /\ n >= 6
             /\ lastSwap.steps[n] = "plugin()->destroy"
             /\ lastSwap.steps[n - 1] = "ReplayReceivedData"
             /\ \A i \in 1..(n - 1) : lastSwap.steps[i] # "plugin()->destroy"

\* The created plugin replaced itself during its initialization: the data
\* went to the plugin the container holds, not to the one created.
C17_Witness ==
  /\ lastSwap.finished /\ lastSwap.target = "created"
  /\ containerPlugin = "other" /\ lastSwap.replayedInto = "other"

\* C18: the gate records at most one unthrottle metric; MarkPluginEssential
\* records its method when power_saver_enabled_ is true, no premade plugin is
\* held and the method is not do-not-record, and nothing otherwise;
\* PluginDestroyed records NEVER when power_saver_enabled_ is true, no premade
\* plugin is held and the poster flag is set, and nothing otherwise; NEVER is
\* recorded only for an instance that was not marked essential.
C18_AtMostOneMetric ==
  /\ Len(metrics) <= 1
  /\ (metrics # << >> /\ metrics[1] = UNTHROTTLE_METHOD_NEVER) =>
       /\ ~plugin_ /\ premadeEssential = "none"
       /\ is_blocked_for_power_saver_poster_
  /\ phase = "live" =>
       /\ \A method \in UnthrottleMethods, e \in HostInputs :
            MarkPluginEssential(Cur, method, e).metrics =
              IF power_saver_enabled_ /\ ~premade_throttler_
                 /\ method # UNTHROTTLE_METHOD_DO_NOT_RECORD
              THEN Append(metrics, method) ELSE metrics
       /\ PluginDestroyed(Cur).metrics =
            IF power_saver_enabled_ /\ ~premade_throttler_
               /\ is_blocked_for_power_saver_poster_
            THEN Append(metrics, UNTHROTTLE_METHOD_NEVER) ELSE metrics

\* Marked essential by the registered callback while the background tab still
\* blocked, never loaded, and torn down: one metric, and no NEVER.
C18_Witness ==
  /\ metrics = << UNTHROTTLE_METHOD_BY_WHITELIST >>
  /\ ~plugin_ /\ attempts = 0 /\ is_blocked_for_background_tab_

\* C19: the premade plugin is not hidden when the container holds it;
\* DidFinishLoadingCallback hides it when it is held and power_saver_enabled_
\* is true, and not otherwise; LoadPlugin hands it over un-hidden.
C19_PremadeInstalledVisible ==
  /\ containerPlugin = "premade" => ~premadeHidden
  /\ phase = "live" =>
       /\ DidFinishLoadingCallback(Cur).premadeHidden =
            IF premade_throttler_ /\ power_saver_enabled_
            THEN TRUE ELSE premadeHidden
       /\ \A e \in HostInputs :
            LET t == LoadPlugin(Cur, e)
            IN t.lastSwap.target = "premade" /\ t.attempts = attempts + 1
                 => ~t.premadeHidden

\* The premade plugin is held, hidden by the finished-loading callback, and
\* the load installs it.
C19_Witness ==
  /\ phase = "live" /\ ~crashed
  /\ premade_throttler_ /\ premadeHidden /\ finished_loading_
  /\ plugin_ /\ container /\ allow_loading_ /\ ~hidden_
  /\ LoadPlugin(Cur, HostDefault).containerPlugin = "premade"

\* C20: a size update changes nothing when the placeholder's plugin is gone,
\* when the placeholder has not finished loading or when the rect is the one
\* processed last; the processed update of a delayed placeholder stores the
\* rect, delegates and clears the delayed flag, and changes nothing else.
C20_IgnoredAndDelayedUpdates ==
  (phase = "live" /\ ~crashed) =>
    \A r \in Rects, status \in PeripheralContentStatus, e \in HostInputs :
      LET t == OnUnobscuredRectUpdate(Cur, r, status, e)
      IN /\ (~plugin_ \/ ~finished_loading_ \/ r = unobscured_rect_) => t = Cur
         /\ (plugin_ /\ finished_loading_ /\ r # unobscured_rect_
             /\ is_delayed_placeholder_) =>
              t = [Cur EXCEPT !.unobscured_rect_ = r,
                              !.is_delayed_placeholder_ = FALSE]

\* A poster-blocked placeholder has processed an update without evaluating
\* the heuristic: the update found it delayed.
C20_Witness ==
  /\ phase = "live" /\ ~crashed /\ plugin_ /\ finished_loading_
  /\ unobscured_rect_ # 0 /\ ~is_delayed_placeholder_
  /\ is_blocked_for_power_saver_poster_ /\ power_saver_enabled_
  /\ evals = 0 /\ ~heuristic_run_before_

====
